---- MODULE Spec2Model ----
(***************************************************************************)
(* State-machine model of src/main.js (muscle pain visualizer): the pain   *)
(* record, its persistence in localStorage, the calendar, the selection of *)
(* a part of the 3D model and the severity panel.                          *)
(*                                                                         *)
(* Dates are JS Date values reduced to their local (year, month, day);     *)
(* month is 0-based as in Date.getMonth().  The stored blob is the JSON    *)
(* text as its sequence of lexical tokens.                                 *)
(***************************************************************************)
EXTENDS Integers, Sequences, FiniteSets, TLC

VARIABLES
    appState,         \* "start" before init() runs, then "ready", or "crashed" when init() threw
    listeners,        \* initEventListeners() has installed the handlers
    renderLoop,       \* animate() has scheduled the per-frame callback
    modelState,       \* GLTFLoader.load: "loading" | "loaded" | "failed"
    today,            \* the real date, what new Date() returns
    currentLang,      \* 'ja' | 'en'
    currentDate,      \* the chosen calendar date
    painData,         \* dateKey -> (muscleName -> level)
    selectedMuscle,   \* the selected mesh, or NoMuscle (null)
    storage,          \* localStorage[STORAGE_KEY]: token sequence, NoBlob when absent
    panelHidden,      \* painLevelPanel carries class 'hidden'
    muscleNameLabel,  \* muscleNameLabel.textContent
    weekdaysLang,     \* language of the weekday labels
    monthYear,        \* calendar header: <<lang, year, month>>, <<>> before the first render
    calendarBody,     \* calendar cells: sequence of class sets
    meshMaterial,     \* mesh -> material instance id (node.material)
    originalMaterial, \* mesh -> material id saved in userData.originalMaterial, 0 before load
    materialColor,    \* material instance id -> colour
    saved,            \* history: savePainDataToStorage() has run at least once
    earlyReturn,      \* history: the handler that ran last, when it took its no-op path
    controlsEnabled,  \* controls.enabled of the OrbitControls
    cameraZ,          \* camera.position.z in units of 3.5 / Scale (x = 0 and y = 1 throughout)
    animations,       \* animateView closures waiting in requestAnimationFrame, oldest first
    resets,           \* history: number of resetView() calls so far
    lastTarget,       \* history: targetPos of the latest resetView(), 0 before the first
    fmtDates,         \* the Date values handed to formatDate, <<>> when none
    fmtKeys           \* the keys formatDate returned for fmtDates, <<>> before the call

vars == <<appState, listeners, renderLoop, modelState, today, currentLang, currentDate,
          painData, selectedMuscle, storage, panelHidden, muscleNameLabel, weekdaysLang,
          monthYear, calendarBody, meshMaterial, originalMaterial, materialColor,
          saved, earlyReturn, controlsEnabled, cameraZ, animations, resets, lastTarget,
          fmtDates, fmtKeys>>

cameraVars == <<controlsEnabled, cameraZ, animations, resets, lastTarget>>
formatVars == <<fmtDates, fmtKeys>>

-----------------------------------------------------------------------------
(* Bounds of the model                                                     *)

\* Largest size (date keys + entries) the pain record may grow to.
MaxSize == 2

\* Months the calendar may be navigated to: December 2023 .. February 2024.
WindowMonths == {<<2023, 11>>, <<2024, 0>>, <<2024, 1>>}

\* Days of the displayed month the user clicks.
ClickDays == {1, 31}

\* Values the severity buttons' data-level may carry (4 is out of range).
LevelInputs == {0, 1, 2, 3, 4}

\* The real date at page load.
TodayChoices == {[y |-> 2024, m |-> 0, d |-> 31]}

\* Largest number of resetView() calls in one run of the camera.
MaxResets == 2

-----------------------------------------------------------------------------
(* JS Date arithmetic                                                      *)

IsLeapYear(y) == (y % 4 = 0 /\ y % 100 # 0) \/ y % 400 = 0

\* Length of month m (0-based) of year y in the Gregorian calendar of Date.
MonthLength(y, m) ==
    IF m = 1 THEN (IF IsLeapYear(y) THEN 29 ELSE 28)
    ELSE IF m \in {3, 5, 8, 10} THEN 30 ELSE 31

\* new Date(y, m, d): month and day outside their ranges carry over.
RECURSIVE NewDate(_, _, _)
NewDate(y, m, d) ==
    IF m < 0 THEN NewDate(y - 1, m + 12, d)
    ELSE IF m > 11 THEN NewDate(y + 1, m - 12, d)
    ELSE IF d < 1 THEN
        LET pm == IF m = 0 THEN 11 ELSE m - 1
            py == IF m = 0 THEN y - 1 ELSE y
        IN NewDate(py, pm, d + MonthLength(py, pm))
    ELSE IF d > MonthLength(y, m) THEN NewDate(y, m + 1, d - MonthLength(y, m))
    ELSE [y |-> y, m |-> m, d |-> d]

\* date.setMonth(month): the day of month is kept and then normalised.
SetMonth(date, month) == NewDate(date.y, month, date.d)

\* Date.getDay() of (y, m, d): 0 = Sunday.
GetDay(y, m, d) ==
    LET t  == <<0, 3, 2, 5, 0, 3, 5, 1, 4, 6, 2, 4>>
        yy == IF m < 2 THEN y - 1 ELSE y
    IN (yy + (yy \div 4) - (yy \div 100) + (yy \div 400) + t[m + 1] + d) % 7

\* variant of SameDay that compares getDate() only
SameDayOfMonth(a, b) == a.d = b.d

\* toDateString() equality: same calendar day.
SameDay(a, b) == a.y = b.y /\ a.m = b.m /\ a.d = b.d

\* String(n).padStart(2, '0')
PadStart2(s) == IF Len(s) < 2 THEN "0" \o s ELSE s

\* variant of formatDate that takes the day from the UTC date (toISOString), as seen
\* from a zone nine hours ahead of UTC
formatDateUTC(date) ==
    LET utc == IF "h" \in DOMAIN date /\ date.h < 9
               THEN NewDate(date.y, date.m, date.d - 1) ELSE date
    IN ToString(utc.y) \o "-" \o PadStart2(ToString(utc.m + 1)) \o "-"
           \o PadStart2(ToString(utc.d))

\* formatDate(date): getFullYear(), getMonth() + 1 and getDate() of the local time
formatDate(date) ==
    ToString(date.y) \o "-" \o PadStart2(ToString(date.m + 1)) \o "-"
        \o PadStart2(ToString(date.d))

-----------------------------------------------------------------------------
(* The 3D asset: scene graph below gltf.scene                              *)

NoMuscle == "null"

\* parent of each node; "model" is gltf.scene, added to "scene".
Parent ==
    [n \in {"scene", "model", "Armature", "arm", "biceps", "triceps", "outline", "torso"} |->
        CASE n = "scene"    -> "null"
          [] n = "model"    -> "scene"
          [] n = "Armature" -> "model"
          [] n = "torso"    -> "model"
          [] n = "arm"      -> "Armature"
          [] OTHER          -> "arm"]

\* nodes with isMesh ("outline" is a line, hit by rays but no mesh)
Meshes == {"biceps", "triceps", "torso"}
\* nodes a ray can hit once the model is in the scene
Raycastable == Meshes \cup {"outline"}
ModelChildren == {n \in DOMAIN Parent : Parent[n] = "model"}
NodeName(n) == n

\* material instance each mesh carries in the asset: the two arm parts share one
AssetMaterial == [n \in Meshes |-> IF n = "torso" THEN 2 ELSE 1]
BaseColor == "base"

PAIN_LEVEL_COLORS(level) ==
    CASE level = 0 -> "888888"
      [] level = 1 -> "F9E79F"
      [] level = 2 -> "F5B041"
      [] level = 3 -> "E67E22"
      [] OTHER     -> "undefined"

-----------------------------------------------------------------------------
(* JSON text of the pain record, as tokens                                 *)

NoBlob == <<>>
EmptyObject == <<>>

Quote(s) == "\"" \o s \o "\""
NumberToken(n) == ToString(n)

\* own keys of an object in enumeration order
RECURSIVE KeysOf(_)
KeysOf(S) ==
    IF S = {} THEN <<>>
    ELSE LET k == CHOOSE x \in S : TRUE IN <<k>> \o KeysOf(S \ {k})

RECURSIVE StringifyMembers(_, _, _)
\* obj at nesting depth 1 holds numbers, at depth 2 holds objects of depth 1
StringifyObject(obj, depth) ==
    <<"{">> \o StringifyMembers(obj, KeysOf(DOMAIN obj), depth) \o <<"}">>
StringifyMembers(obj, keys, depth) ==
    IF keys = <<>> THEN <<>>
    ELSE LET k == Head(keys)
             v == IF depth = 1 THEN <<NumberToken(obj[k])>>
                  ELSE StringifyObject(obj[k], depth - 1)
         IN <<Quote(k), ":">> \o v
              \o (IF Tail(keys) = <<>> THEN <<>> ELSE <<",">>)
              \o StringifyMembers(obj, Tail(keys), depth)

JSONstringify(pd) == StringifyObject(pd, 2)

\* strings and numbers the JSON text may hold
WindowDates ==
    {[y |-> ym[1], m |-> ym[2], d |-> d] : ym \in WindowMonths, d \in 1..31}
JSONStrings == {formatDate(dt) : dt \in WindowDates} \cup {NodeName(n) : n \in Raycastable}
JSONNumbers == 0..9

\* the lexer's tables: the token of each string and number, inverted
StringTokens == [q \in {Quote(s) : s \in JSONStrings} |-> CHOOSE s \in JSONStrings : Quote(s) = q]
NumberTokens ==
    [q \in {NumberToken(n) : n \in JSONNumbers} |-> CHOOSE n \in JSONNumbers : NumberToken(n) = q]
IsStringToken(tok) == tok \in DOMAIN StringTokens
IsNumberToken(tok) == tok \in DOMAIN NumberTokens
Unquote(tok) == StringTokens[tok]
ParseNumber(tok) == NumberTokens[tok]

\* JSON.parse throws SyntaxError: ok = FALSE
ParseError == [ok |-> FALSE, val |-> EmptyObject, next |-> 0]

\* Recursive descent over the tokens from position i; the grammar is the part of
\* JSON that JSON.stringify produces for the record: objects and numbers.
RECURSIVE ParseValue(_, _), ParseMembers(_, _, _)
ParseValue(toks, i) ==
    IF i > Len(toks) THEN ParseError
    ELSE IF toks[i] = "{" THEN
        IF i + 1 <= Len(toks) /\ toks[i + 1] = "}"
        THEN [ok |-> TRUE, val |-> EmptyObject, next |-> i + 2]
        ELSE ParseMembers(toks, i + 1, EmptyObject)
    ELSE IF IsNumberToken(toks[i])
        THEN [ok |-> TRUE, val |-> ParseNumber(toks[i]), next |-> i + 1]
    ELSE ParseError
ParseMembers(toks, i, acc) ==
    IF i + 1 > Len(toks) THEN ParseError
    ELSE IF ~IsStringToken(toks[i]) \/ toks[i + 1] # ":" THEN ParseError
    ELSE LET v == ParseValue(toks, i + 2)
         IN IF ~v.ok \/ v.next > Len(toks) THEN ParseError
            ELSE LET obj == (Unquote(toks[i]) :> v.val) @@ acc
                 IN IF toks[v.next] = "}"
                        THEN [ok |-> TRUE, val |-> obj, next |-> v.next + 1]
                    ELSE IF toks[v.next] = ","
                        THEN ParseMembers(toks, v.next + 1, obj)
                    ELSE ParseError

JSONparse(toks) ==
    LET r == ParseValue(toks, 1)
    IN IF r.ok /\ r.next = Len(toks) + 1 THEN r ELSE ParseError

-----------------------------------------------------------------------------
(* Pain record                                                             *)

\* painData[key] is truthy: the key is present (an object, even an empty one)
HasKey(pd, key) == key \in DOMAIN pd

\* painData[key] || {}
GetOrEmpty(pd, key) == IF HasKey(pd, key) THEN pd[key] ELSE EmptyObject

\* delete obj[name]
DeleteEntry(obj, name) == [k \in (DOMAIN obj) \ {name} |-> obj[k]]

\* obj[name] = value
AssignEntry(obj, name, value) == (name :> value) @@ obj

\* variant of UpdatedPainData that leaves an entry already present as it is
UpdatedPainDataKeepOld(pd, key, name, level) ==
    LET pd1 == IF ~HasKey(pd, key) THEN AssignEntry(pd, key, EmptyObject) ELSE pd
    IN IF level = 0
       THEN [pd1 EXCEPT ![key] = DeleteEntry(@, name)]
       ELSE IF name \in DOMAIN pd1[key] THEN pd1
       ELSE [pd1 EXCEPT ![key] = AssignEntry(@, name, level)]

\* lines 193-201 of setPainLevel: the record after the update
UpdatedPainData(pd, key, name, level) ==
    LET pd1 == IF ~HasKey(pd, key) THEN AssignEntry(pd, key, EmptyObject) ELSE pd
    IN IF level = 0
       THEN [pd1 EXCEPT ![key] = DeleteEntry(@, name)]
       ELSE [pd1 EXCEPT ![key] = AssignEntry(@, name, level)]

\* number of date keys plus number of entries
RECURSIVE SumEntries(_, _)
SumEntries(pd, keys) ==
    IF keys = {} THEN 0
    ELSE LET k == CHOOSE x \in keys : TRUE
         IN Cardinality(DOMAIN pd[k]) + SumEntries(pd, keys \ {k})
RecordSize(pd) == Cardinality(DOMAIN pd) + SumEntries(pd, DOMAIN pd)

\* variant of LoadedPainData that parses the text and drops the result
LoadedPainDataDropped(blob, pd) ==
    IF blob = NoBlob THEN [threw |-> FALSE, painData |-> pd]
    ELSE [threw |-> ~JSONparse(blob).ok, painData |-> pd]

\* loadPainDataFromStorage: [threw, painData]
LoadedPainData(blob, pd) ==
    IF blob = NoBlob THEN [threw |-> FALSE, painData |-> pd]
    ELSE LET r == JSONparse(blob)
         IN IF r.ok THEN [threw |-> FALSE, painData |-> r.val]
            ELSE [threw |-> TRUE, painData |-> pd]

\* blobs found in localStorage at page load: none, a saved record, truncated text
InitialBlobs ==
    { NoBlob,
      JSONstringify("2023-12-31" :> ("biceps" :> 2)),
      <<"{", Quote("2023-12-31"), ":">> }

-----------------------------------------------------------------------------
(* Appearance of the parts                                                 *)

MeshOrder == KeysOf(Meshes)
MaterialIds == 1..(2 * Cardinality(Meshes) + 1)

\* material instances still referenced by a mesh or saved as an original
LiveMaterials(mm, orig) == {mm[n] : n \in Meshes} \cup ({orig[n] : n \in Meshes} \ {0})

\* variant of updateMuscleAppearance that sets the colour on the material the mesh
\* carries, without clone()
updateMuscleAppearanceInPlace(mats, orig, muscle, level) ==
    LET color == IF PAIN_LEVEL_COLORS(level) = "undefined" THEN mats.mc[mats.mm[muscle]]
                 ELSE PAIN_LEVEL_COLORS(level)
        mm2   == IF level = 0 THEN [mats.mm EXCEPT ![muscle] = orig[muscle]] ELSE mats.mm
        mc2   == IF level = 0 THEN mats.mc ELSE [mats.mc EXCEPT ![mats.mm[muscle]] = color]
    IN [mm |-> mm2, mc |-> [id \in LiveMaterials(mm2, orig) |-> mc2[id]]]

\* updateMuscleAppearance(muscle, level) on mats = [mm: node.material, mc: colour of
\* each instance].  clone() makes a new instance; it is given the lowest id no other
\* mesh references; instances no longer referenced are dropped.
updateMuscleAppearance(mats, orig, muscle, level) ==
    LET others == {mats.mm[n] : n \in Meshes \ {muscle}} \cup ({orig[n] : n \in Meshes} \ {0})
        fresh  == CHOOSE id \in MaterialIds :
                      id \notin others /\ \A j \in MaterialIds : j < id => j \in others
        color  == IF PAIN_LEVEL_COLORS(level) = "undefined"
                  THEN mats.mc[orig[muscle]]      \* Color.set(undefined) changes nothing
                  ELSE PAIN_LEVEL_COLORS(level)
        mm2    == IF level = 0
                  THEN [mats.mm EXCEPT ![muscle] = orig[muscle]]
                  ELSE [mats.mm EXCEPT ![muscle] = fresh]
        mc2    == IF level = 0 THEN mats.mc ELSE (fresh :> color) @@ mats.mc
    IN [mm |-> mm2, mc |-> [id \in LiveMaterials(mm2, orig) |-> mc2[id]]]

\* updateAllMusclesForDate(dateKey): every mesh of the model, in traversal order
RECURSIVE PaintMeshes(_, _, _, _)
PaintMeshes(mats, orig, todo, dataForDate) ==
    IF todo = <<>> THEN mats
    ELSE LET node  == Head(todo)
             level == IF NodeName(node) \in DOMAIN dataForDate /\ dataForDate[NodeName(node)] # 0
                      THEN dataForDate[NodeName(node)] ELSE 0
         IN PaintMeshes(updateMuscleAppearance(mats, orig, node, level), orig,
                        Tail(todo), dataForDate)

updateAllMusclesForDate(mats, orig, pd, dateKey) ==
    PaintMeshes(mats, orig, MeshOrder, GetOrEmpty(pd, dateKey))

\* loadDataForDate(date)
loadDataForDate(mats, orig, pd, date) ==
    updateAllMusclesForDate(mats, orig, pd, formatDate(date))

-----------------------------------------------------------------------------
(* Calendar                                                                *)

\* new Date(year, month + 1, 0).getDate()
DaysInMonth(year, month) == NewDate(year, month + 1, 0).d

\* generateCalendar(year, month): the cells written into calendarBody
CalendarCells(year, month, cur, pd, tdy) ==
    LET firstDay == GetDay(year, month, 1)
    IN [i \in 1..(firstDay + DaysInMonth(year, month)) |->
          IF i <= firstDay THEN {"empty"}
          ELSE LET date == NewDate(year, month, i - firstDay)
               IN {"calendar-day"}
                    \cup (IF SameDay(date, tdy) THEN {"today"} ELSE {})
                    \cup (IF SameDay(date, cur) THEN {"selected"} ELSE {})
                    \cup (IF HasKey(pd, formatDate(date)) THEN {"has-data"} ELSE {})]

\* the cell of day `day` in the rendered calendar
DayCell(body, year, month, day) == body[GetDay(year, month, 1) + day]

\* variant of generateCalendar that marks the real date as the selected one
generateCalendarSelectToday(year, month, lang, cur, pd) ==
    /\ monthYear' = <<lang, year, month>>
    /\ calendarBody' = CalendarCells(year, month, today, pd, today)

\* generateCalendar(year, month) with the current language, date and record
generateCalendar(year, month, lang, cur, pd) ==
    /\ monthYear' = <<lang, year, month>>
    /\ calendarBody' = CalendarCells(year, month, cur, pd, today)

-----------------------------------------------------------------------------
(* Camera: resetView() and its per-frame interpolation                     *)

\* t advances by 1 / (duration * 60) = 1/30 on every call of animateView
StepsPerUnit == 30

\* thirty additions of the double 1/30 give 0.9999999999999999, still below 1:
\* the call that ends the interpolation is the one after, with Math.min(t, 1) = 1
LastCall == StepsPerUnit + 1

\* z is counted in units of 3.5 / Scale, so that every interpolated position of
\* up to MaxResets nested interpolations is a whole number
Scale == StepsPerUnit ^ MaxResets
FrontZ == Scale
BackZ == 0 - Scale

\* targetPos of resetView(isFront)
TargetPos(isFront) == IF isFront THEN FrontZ ELSE BackZ

Min(a, b) == IF a < b THEN a ELSE b

\* camera.position.lerpVectors(startPos, targetPos, Math.min(t, 1)) after n calls
\* (the thirtieth call's factor 0.9999999999999999 is taken as 1)
lerpVectors(start, target, n) ==
    start + ((target - start) * Min(n, StepsPerUnit)) \div StepsPerUnit

\* one call of animateView for closure a, on camera state cam = [z, enabled, queue]
animateView(cam, a) ==
    LET n == a.n + 1
        z == lerpVectors(a.start, a.target, n)
    IN IF n < LastCall
       THEN [z |-> z, enabled |-> cam.enabled,
             queue |-> Append(cam.queue, [a EXCEPT !.n = n])]
       ELSE [z |-> z, enabled |-> TRUE, queue |-> cam.queue]

\* the callbacks of one frame, in the order they were requested
RECURSIVE RunCallbacks(_, _)
RunCallbacks(cam, todo) ==
    IF todo = <<>> THEN cam
    ELSE RunCallbacks(animateView(cam, Head(todo)), Tail(todo))

-----------------------------------------------------------------------------
(* Initial state: the module's top-level declarations, before init() runs  *)

TopLevel ==
    /\ appState = "start"
    /\ listeners = FALSE
    /\ renderLoop = FALSE
    /\ modelState = "loading"
    /\ today \in TodayChoices
    /\ currentLang = "ja"
    /\ currentDate = today
    /\ painData = EmptyObject
    /\ selectedMuscle = NoMuscle
    /\ storage \in InitialBlobs
    /\ panelHidden = TRUE
    /\ muscleNameLabel = ""
    /\ weekdaysLang = ""
    /\ monthYear = <<>>
    /\ calendarBody = <<>>
    /\ meshMaterial = AssetMaterial
    /\ originalMaterial = [n \in Meshes |-> 0]
    /\ materialColor = [id \in {AssetMaterial[n] : n \in Meshes} |-> BaseColor]
    /\ saved = FALSE
    /\ earlyReturn = ""
    /\ controlsEnabled = TRUE
    /\ cameraZ = FrontZ
    /\ animations = <<>>
    /\ resets = 0
    /\ lastTarget = 0

Init ==
    /\ TopLevel
    /\ fmtDates = <<>>
    /\ fmtKeys = <<>>

-----------------------------------------------------------------------------
(* Handlers                                                                *)

\* variant of initCalendar that starts from an empty record instead of loading
initCalendarFresh(lang) ==
    /\ weekdaysLang' = lang
    /\ painData' = EmptyObject
    /\ generateCalendar(currentDate.y, currentDate.m, lang, currentDate, EmptyObject)

\* initCalendar(): weekday labels, load from storage, render; an exception of
\* JSON.parse leaves the function before generateCalendar.  threw' tells the caller.
initCalendar(lang) ==
    LET loaded == LoadedPainData(storage, painData)
    IN /\ weekdaysLang' = lang
       /\ painData' = loaded.painData
       /\ IF loaded.threw
          THEN UNCHANGED <<monthYear, calendarBody>>
          ELSE generateCalendar(currentDate.y, currentDate.m, lang, currentDate,
                                loaded.painData)

\* init(): scene set-up, loader.load(...), initCalendar(), initEventListeners(), animate()
init ==
    /\ appState = "start"
    /\ initCalendar(currentLang)
    /\ IF LoadedPainData(storage, painData).threw
       THEN /\ appState' = "crashed"
            /\ UNCHANGED <<listeners, renderLoop>>
       ELSE /\ appState' = "ready"
            /\ listeners' = TRUE
            /\ renderLoop' = TRUE
    /\ earlyReturn' = ""
    /\ UNCHANGED <<modelState, today, currentLang, currentDate, selectedMuscle, storage,
                   panelHidden, muscleNameLabel, meshMaterial, originalMaterial,
                   materialColor, saved>>
    /\ UNCHANGED <<cameraVars, formatVars>>

\* loader.load success callback
modelLoaded ==
    /\ appState # "start"
    /\ modelState = "loading"
    /\ modelState' = "loaded"
    /\ originalMaterial' = [n \in Meshes |-> meshMaterial[n]]
    /\ LET mats == loadDataForDate([mm |-> meshMaterial, mc |-> materialColor],
                                   [n \in Meshes |-> meshMaterial[n]], painData, currentDate)
       IN /\ meshMaterial' = mats.mm
          /\ materialColor' = mats.mc
    /\ earlyReturn' = ""
    /\ UNCHANGED <<appState, listeners, renderLoop, today, currentLang, currentDate, painData,
                   selectedMuscle, storage, panelHidden, muscleNameLabel, weekdaysLang,
                   monthYear, calendarBody, saved>>
    /\ UNCHANGED <<cameraVars, formatVars>>

\* loader.load error callback
modelLoadFailed ==
    /\ appState # "start"
    /\ modelState = "loading"
    /\ modelState' = "failed"
    /\ earlyReturn' = ""
    /\ UNCHANGED <<appState, listeners, renderLoop, today, currentLang, currentDate, painData,
                   selectedMuscle, storage, panelHidden, muscleNameLabel, weekdaysLang,
                   monthYear, calendarBody, meshMaterial, originalMaterial, materialColor,
                   saved>>
    /\ UNCHANGED <<cameraVars, formatVars>>

\* click on the cell of `day` in the rendered calendar (handler of lines 135-139);
\* with no model yet, model.traverse throws after the calendar was redrawn
dayClick(day) ==
    /\ calendarBody # <<>>
    /\ day \in 1..DaysInMonth(monthYear[2], monthYear[3])
    /\ LET date == NewDate(monthYear[2], monthYear[3], day)
       IN /\ currentDate' = date
          /\ generateCalendar(monthYear[2], monthYear[3], currentLang, date, painData)
          /\ IF modelState = "loaded"
             THEN LET mats == loadDataForDate([mm |-> meshMaterial, mc |-> materialColor],
                                              originalMaterial, painData, date)
                  IN /\ meshMaterial' = mats.mm
                     /\ materialColor' = mats.mc
             ELSE UNCHANGED <<meshMaterial, materialColor>>
    /\ earlyReturn' = ""
    /\ UNCHANGED <<appState, listeners, renderLoop, modelState, today, currentLang, painData,
                   selectedMuscle, storage, panelHidden, muscleNameLabel, weekdaysLang,
                   originalMaterial, saved>>
    /\ UNCHANGED <<cameraVars, formatVars>>

\* variant of changeMonth that turns the displayed page only and keeps currentDate
changeMonthDisplayOnly(delta) ==
    /\ listeners
    /\ LET shown == NewDate(monthYear[2], monthYear[3] + delta, 1)
       IN generateCalendar(shown.y, shown.m, currentLang, currentDate, painData)
    /\ earlyReturn' = ""
    /\ UNCHANGED <<appState, listeners, renderLoop, modelState, today, currentLang, painData,
                   selectedMuscle, storage, panelHidden, muscleNameLabel, weekdaysLang,
                   meshMaterial, originalMaterial, materialColor, saved, currentDate>>
    /\ UNCHANGED <<cameraVars, formatVars>>

\* changeMonth(delta): prev-month (-1) and next-month (+1) buttons
changeMonth(delta) ==
    /\ listeners
    /\ LET date == SetMonth(currentDate, currentDate.m + delta)
       IN /\ currentDate' = date
          /\ generateCalendar(date.y, date.m, currentLang, date, painData)
    /\ earlyReturn' = ""
    /\ UNCHANGED <<appState, listeners, renderLoop, modelState, today, currentLang, painData,
                   selectedMuscle, storage, panelHidden, muscleNameLabel, weekdaysLang,
                   meshMaterial, originalMaterial, materialColor, saved>>
    /\ UNCHANGED <<cameraVars, formatVars>>

\* variant of IsPaintablePart without the isMesh test
IsPaintablePartAnyObject(obj) == Parent[Parent[obj]] \in ModelChildren

\* the test of line 181 on the nearest intersected object
IsPaintablePart(obj) == obj \in Meshes /\ Parent[Parent[obj]] \in ModelChildren

\* objects the ray of a click can report first: nothing, or a node of the loaded model
Hits == {NoMuscle} \cup (IF modelState = "loaded" THEN Raycastable ELSE {})

\* onPointerClick(event): hit is intersects[0].object, NoMuscle when intersects is empty
onPointerClick(hit) ==
    /\ listeners
    /\ hit \in Hits
    /\ IF hit # NoMuscle /\ IsPaintablePart(hit)
       THEN /\ selectedMuscle' = hit
            /\ muscleNameLabel' = NodeName(hit)
            /\ panelHidden' = FALSE
       ELSE UNCHANGED <<selectedMuscle, muscleNameLabel, panelHidden>>
    /\ earlyReturn' = (IF hit # NoMuscle /\ IsPaintablePart(hit) THEN "" ELSE "onPointerClick")
    /\ UNCHANGED <<appState, listeners, renderLoop, modelState, today, currentLang,
                   currentDate, painData, storage, weekdaysLang, monthYear, calendarBody,
                   meshMaterial, originalMaterial, materialColor, saved>>
    /\ UNCHANGED <<cameraVars, formatVars>>

\* variant of savePainDataToStorage that writes the record as it was before the update
savePainDataToStorageStale(pd) == storage' = JSONstringify(painData)

\* savePainDataToStorage()
savePainDataToStorage(pd) == storage' = JSONstringify(pd)

\* variant of setPainLevel that writes the record to storage before testing the selection
setPainLevelSaveAnyway(level) ==
    /\ listeners
    /\ earlyReturn' = (IF selectedMuscle = NoMuscle THEN "setPainLevel" ELSE "")
    /\ IF selectedMuscle = NoMuscle
       THEN /\ savePainDataToStorage(painData)
            /\ saved' = TRUE
            /\ UNCHANGED <<painData, monthYear, calendarBody, panelHidden, meshMaterial,
                           materialColor>>
       ELSE LET dateKey == formatDate(currentDate)
                pd      == UpdatedPainData(painData, dateKey, NodeName(selectedMuscle), level)
                mats    == updateMuscleAppearance([mm |-> meshMaterial, mc |-> materialColor],
                                                  originalMaterial, selectedMuscle, level)
            IN /\ painData' = pd
               /\ meshMaterial' = mats.mm
               /\ materialColor' = mats.mc
               /\ savePainDataToStorage(pd)
               /\ saved' = TRUE
               /\ generateCalendar(currentDate.y, currentDate.m, currentLang, currentDate, pd)
               /\ panelHidden' = TRUE
    /\ UNCHANGED <<appState, listeners, renderLoop, modelState, today, currentLang,
                   currentDate, selectedMuscle, muscleNameLabel, weekdaysLang,
                   originalMaterial>>
    /\ UNCHANGED <<cameraVars, formatVars>>

\* setPainLevel(level): click on a .pain-level-btn whose data-level is level
setPainLevel(level) ==
    /\ listeners
    /\ earlyReturn' = (IF selectedMuscle = NoMuscle THEN "setPainLevel" ELSE "")
    /\ IF selectedMuscle = NoMuscle
       THEN UNCHANGED <<painData, storage, saved, monthYear, calendarBody, panelHidden,
                        meshMaterial, materialColor>>
       ELSE LET dateKey == formatDate(currentDate)
                pd      == UpdatedPainData(painData, dateKey, NodeName(selectedMuscle), level)
                mats    == updateMuscleAppearance([mm |-> meshMaterial, mc |-> materialColor],
                                                  originalMaterial, selectedMuscle, level)
            IN /\ painData' = pd
               /\ meshMaterial' = mats.mm
               /\ materialColor' = mats.mc
               /\ savePainDataToStorage(pd)
               /\ saved' = TRUE
               /\ generateCalendar(currentDate.y, currentDate.m, currentLang, currentDate, pd)
               /\ panelHidden' = TRUE
    /\ UNCHANGED <<appState, listeners, renderLoop, modelState, today, currentLang,
                   currentDate, selectedMuscle, muscleNameLabel, weekdaysLang,
                   originalMaterial>>
    /\ UNCHANGED <<cameraVars, formatVars>>

\* close-panel button (line 163)
closePanel ==
    /\ listeners
    /\ panelHidden' = TRUE
    /\ earlyReturn' = ""
    /\ UNCHANGED <<appState, listeners, renderLoop, modelState, today, currentLang,
                   currentDate, painData, selectedMuscle, storage, muscleNameLabel,
                   weekdaysLang, monthYear, calendarBody, meshMaterial, originalMaterial,
                   materialColor, saved>>
    /\ UNCHANGED <<cameraVars, formatVars>>

\* toggleLanguage()
toggleLanguage ==
    /\ listeners
    /\ currentLang' = (IF currentLang = "ja" THEN "en" ELSE "ja")
    /\ initCalendar(IF currentLang = "ja" THEN "en" ELSE "ja")
    /\ earlyReturn' = ""
    /\ UNCHANGED <<appState, listeners, renderLoop, modelState, today, currentDate,
                   selectedMuscle, storage, panelHidden, muscleNameLabel, meshMaterial,
                   originalMaterial, materialColor, saved>>
    /\ UNCHANGED <<cameraVars, formatVars>>

\* resetView(isFront): the reset-view buttons; animateView() runs once at once
resetView(isFront) ==
    /\ listeners
    /\ LET a   == [n |-> 0, start |-> cameraZ, target |-> TargetPos(isFront)]
           cam == animateView([z |-> cameraZ, enabled |-> FALSE, queue |-> animations], a)
       IN /\ cameraZ' = cam.z
          /\ controlsEnabled' = cam.enabled
          /\ animations' = cam.queue
          /\ lastTarget' = a.target
    /\ resets' = resets + 1
    /\ earlyReturn' = ""
    /\ UNCHANGED <<appState, listeners, renderLoop, modelState, today, currentLang,
                   currentDate, painData, selectedMuscle, storage, panelHidden,
                   muscleNameLabel, weekdaysLang, monthYear, calendarBody, meshMaterial,
                   originalMaterial, materialColor, saved, formatVars>>

\* one animation frame of the browser: animate() (controls.update and render, no
\* change of the state) and the pending animateView callbacks, oldest first
frame ==
    /\ renderLoop \/ animations # <<>>
    /\ LET cam == RunCallbacks([z |-> cameraZ, enabled |-> controlsEnabled, queue |-> <<>>],
                               animations)
       IN /\ cameraZ' = cam.z
          /\ controlsEnabled' = cam.enabled
          /\ animations' = cam.queue
    /\ UNCHANGED <<appState, listeners, renderLoop, modelState, today, currentLang,
                   currentDate, painData, selectedMuscle, storage, panelHidden,
                   muscleNameLabel, weekdaysLang, monthYear, calendarBody, meshMaterial,
                   originalMaterial, materialColor, saved, earlyReturn, resets, lastTarget,
                   formatVars>>

\* saveAsImage(): renders and downloads muscle-pain-<date key>.png; the page keeps its state
saveAsImage ==
    /\ listeners
    /\ earlyReturn' = ""
    /\ UNCHANGED <<appState, listeners, renderLoop, modelState, today, currentLang,
                   currentDate, painData, selectedMuscle, storage, panelHidden,
                   muscleNameLabel, weekdaysLang, monthYear, calendarBody, meshMaterial,
                   originalMaterial, materialColor, saved, cameraVars, formatVars>>

-----------------------------------------------------------------------------
(* Specification                                                           *)

\* the displayed month stays inside the window of the model
InWindow(date) == <<date.y, date.m>> \in WindowMonths

Next ==
    \/ init
    \/ modelLoaded
    \/ modelLoadFailed
    \/ \E delta \in {-1, 1} : changeMonth(delta) /\ InWindow(currentDate')
    \/ \E day \in ClickDays : dayClick(day)
    \/ \E hit \in {NoMuscle} \cup Raycastable : onPointerClick(hit)
    \/ \E level \in LevelInputs : setPainLevel(level) /\ RecordSize(painData') <= MaxSize
    \/ closePanel
    \/ toggleLanguage

Spec == Init /\ [][Next]_vars

\* the camera alone: page load, the reset-view buttons and the frames
NextCamera ==
    \/ init
    \/ \E isFront \in BOOLEAN : resetView(isFront) /\ resets < MaxResets
    \/ frame

SpecCamera == Init /\ [][NextCamera]_vars

\* Date values handed to formatDate: local year, month, day and hour of the day
FormatDates ==
    {[y |-> y, m |-> m, d |-> d, h |-> h] :
        y \in {2023, 2024}, m \in {0, 1, 10, 11}, d \in {1, 2, 11, 12, 21}, h \in {0, 12, 23}}

InitFormat ==
    /\ TopLevel
    /\ storage = NoBlob
    /\ fmtDates \in FormatDates \X FormatDates
    /\ fmtKeys = <<>>

\* formatDate applied to each of the two dates
encodeDates ==
    /\ fmtKeys = <<>>
    /\ fmtDates # <<>>
    /\ fmtKeys' = <<formatDate(fmtDates[1]), formatDate(fmtDates[2])>>
    /\ UNCHANGED <<appState, listeners, renderLoop, modelState, today, currentLang,
                   currentDate, painData, selectedMuscle, storage, panelHidden,
                   muscleNameLabel, weekdaysLang, monthYear, calendarBody, meshMaterial,
                   originalMaterial, materialColor, saved, earlyReturn, cameraVars,
                   fmtDates>>

NextFormat == encodeDates

SpecFormat == InitFormat /\ [][NextFormat]_vars

\* every operation of the page: the user's events up to the first reset of the
\* camera, then that reset running through its frames, and image exports throughout
NextFrames ==
    \/ resets = 0 /\ Next
    \/ saveAsImage
    \/ \E isFront \in BOOLEAN : resetView(isFront) /\ resets = 0
    \/ frame

SpecFrames == Init /\ [][NextFrames]_vars

-----------------------------------------------------------------------------
(* Properties                                                              *)

SelectedKey == formatDate(currentDate)
SelectedName == NodeName(selectedMuscle)

\* C1: after setPainLevel(level) with level in {1,2,3} and a part selected, the record
\* maps the current date's key and the part's name to exactly that level.
C1_SetStoresSeverity ==
    [][\A level \in {1, 2, 3} :
          (setPainLevel(level) /\ selectedMuscle # NoMuscle) =>
              /\ HasKey(painData', SelectedKey)
              /\ SelectedName \in DOMAIN painData'[SelectedKey]
              /\ painData'[SelectedKey][SelectedName] = level]_vars

\* a level 3 was saved for the selected part on 2023-12-31 (the stored blob had 2 or nothing)
C1_Witness ==
    /\ saved
    /\ selectedMuscle = "biceps"
    /\ currentDate = [y |-> 2023, m |-> 11, d |-> 31]
    /\ HasKey(painData, "2023-12-31")
    /\ "biceps" \in DOMAIN painData["2023-12-31"]
    /\ painData["2023-12-31"]["biceps"] = 3

\* C2: setPainLevel(0) removes the part's entry from the date's map, and when that
\* was the date's last entry the re-rendered calendar no longer marks the day has-data.
C2_ZeroRemovesAndUnmarks ==
    [][(setPainLevel(0) /\ selectedMuscle # NoMuscle) =>
          /\ SelectedName \notin DOMAIN GetOrEmpty(painData', SelectedKey)
          /\ (DOMAIN GetOrEmpty(painData, SelectedKey) = {SelectedName} =>
                "has-data" \notin DayCell(calendarBody', currentDate.y, currentDate.m,
                                          currentDate.d))]_vars

\* C3: every date key present in the record has a non-empty part map.
C3_NoEmptyPartMap ==
    \A key \in DOMAIN painData : DOMAIN painData[key] # {}

\* C4: a request with a severity outside {0,1,2,3} leaves the record and the blob
\* unchanged, and every value stored in the record is in {1,2,3}.
C4_OutOfRangeRejected ==
    [][/\ \A level \in LevelInputs \ {0, 1, 2, 3} :
             setPainLevel(level) => UNCHANGED <<painData, storage>>
       /\ \A key \in DOMAIN painData' : \A name \in DOMAIN painData'[key] :
             painData'[key][name] \in {1, 2, 3}]_vars

\* C5: once a severity-setting operation has saved, the stored blob deserializes to
\* exactly the in-memory record.
C5_StorageMatchesRecord ==
    saved => JSONparse(storage).ok /\ JSONparse(storage).val = painData

\* after a save: a record of size 2, then a language toggle and a change of date
C5_Witness ==
    /\ saved
    /\ RecordSize(painData) = 2
    /\ currentLang = "en"
    /\ currentDate # today

\* C6: saving the record and loading it back into a fresh page yields the same record.
C6_RoundTrip ==
    LoadedPainData(JSONstringify(painData), EmptyObject)
        = [threw |-> FALSE, painData |-> painData]

\* a record built by setPainLevel that holds an entry
C6_Witness ==
    /\ saved
    /\ \E key \in DOMAIN painData : DOMAIN painData[key] # {}

\* C7: with a malformed payload in storage, init() ends with an empty record, the
\* calendar rendered, the listeners installed and the render loop running.
C7_MalformedBlobFallsBack ==
    (appState # "start" /\ storage # NoBlob /\ ~JSONparse(storage).ok) =>
        /\ appState = "ready"
        /\ painData = EmptyObject
        /\ calendarBody # <<>>
        /\ listeners
        /\ renderLoop

\* C8: next displays exactly the following month and prev exactly the preceding one.
C8_MonthStepsByOne ==
    [][\A delta \in {-1, 1} :
          changeMonth(delta) =>
              monthYear'[2] * 12 + monthYear'[3] = monthYear[2] * 12 + monthYear[3] + delta]_vars

\* C9: whenever the severity panel is hidden no part is selected, and closing the
\* panel leaves the record and the blob unchanged.
C9_HiddenPanelClearsSelection ==
    [][/\ (listeners' /\ panelHidden') => selectedMuscle' = NoMuscle
       /\ closePanel => UNCHANGED <<painData, storage>>]_vars

\* C10: a click with no intersection, or whose nearest hit is no mesh, leaves the panel,
\* the selection, the record and the blob unchanged.
C10_MissIsNoOp ==
    [][\A hit \in ({NoMuscle} \cup Raycastable) \ Meshes :
          onPointerClick(hit) => UNCHANGED <<panelHidden, selectedMuscle, painData, storage>>]_vars

\* a click just missed while a part is selected, the panel open and the record in use
C10_Witness ==
    /\ earlyReturn = "onPointerClick"
    /\ selectedMuscle = "biceps"
    /\ ~panelHidden
    /\ painData # EmptyObject

\* C11: setPainLevel with no part selected returns at once: the record, the blob, every
\* part's material, the calendar, the panel and the selection stay as they were.
C11_NoSelectionNoOp ==
    [][\A level \in LevelInputs :
          (setPainLevel(level) /\ selectedMuscle = NoMuscle) =>
              UNCHANGED <<painData, storage, meshMaterial, materialColor, monthYear,
                          calendarBody, panelHidden, selectedMuscle>>]_vars

\* a severity button fired with nothing selected, the model loaded and the record in use
C11_Witness ==
    /\ earlyReturn = "setPainLevel"
    /\ selectedMuscle = NoMuscle
    /\ modelState = "loaded"
    /\ painData # EmptyObject

\* severity the record holds for a part under a date key, 0 when absent
StoredLevel(pd, key, name) ==
    IF name \in DOMAIN GetOrEmpty(pd, key) THEN pd[key][name] ELSE 0

\* the part shows `level`: its original material for 0, otherwise a material of its
\* own carrying the colour of the level
Shows(mm, mc, orig, mesh, level) ==
    IF level = 0 THEN mm[mesh] = orig[mesh]
    ELSE /\ mm[mesh] # orig[mesh]
         /\ mc[mm[mesh]] = (IF PAIN_LEVEL_COLORS(level) = "undefined" THEN BaseColor
                            ELSE PAIN_LEVEL_COLORS(level))

\* C12: with the model loaded, every step that changes the current date (day click,
\* prev/next month) leaves each part showing the severity stored for it under the new date.
C12_RepaintOnDateChange ==
    [][(modelState = "loaded" /\ currentDate' # currentDate) =>
          \A mesh \in Meshes :
              Shows(meshMaterial', materialColor', originalMaterial', mesh,
                    StoredLevel(painData', formatDate(currentDate'), NodeName(mesh)))]_vars

\* C13: day click, prev/next month, part click, panel close, language toggle, camera
\* reset, image export and the frame callback leave the record and the blob unchanged.
C13_OnlySetPainLevelMutates ==
    [][(\/ frame
        \/ saveAsImage
        \/ \E isFront \in BOOLEAN : resetView(isFront)
        \/ closePanel
        \/ \E hit \in {NoMuscle} \cup Raycastable : onPointerClick(hit)
        \/ \E delta \in {-1, 1} : changeMonth(delta)
        \/ \E day \in ClickDays : dayClick(day)
        \/ toggleLanguage) => UNCHANGED <<painData, storage>>]_vars

\* a saved record of two entries, the language toggled, and a reset to the back view
\* half-way through its frames
C13_Witness ==
    /\ saved
    /\ RecordSize(painData) = 2
    /\ currentLang = "en"
    /\ animations # <<>>
    /\ cameraZ = 0

\* indices of the cells of a rendered calendar that carry class cls
CellsWith(body, cls) == {i \in 1..Len(body) : cls \in body[i]}

\* C14: a rendered calendar has exactly one cell marked today when the real date lies in
\* the displayed month, the cell of that day, and none otherwise.
C14_OneTodayCell ==
    calendarBody # <<>> =>
        CellsWith(calendarBody, "today") =
            (IF today.y = monthYear[2] /\ today.m = monthYear[3]
             THEN {GetDay(today.y, today.m, 1) + today.d} ELSE {})

\* January 2024 rendered in English with the 1st chosen: the 31st is today
C14_Witness ==
    /\ monthYear = <<"en", 2024, 0>>
    /\ currentDate = [y |-> 2024, m |-> 0, d |-> 1]
    /\ "today" \in DayCell(calendarBody, 2024, 0, 31)
    /\ Cardinality(CellsWith(calendarBody, "today")) = 1

\* C15: two dates get the same key exactly when they are the same calendar day,
\* whatever their time of day.
C15_KeyIdentifiesDay ==
    fmtKeys # <<>> => (SameDay(fmtDates[1], fmtDates[2]) <=> fmtKeys[1] = fmtKeys[2])

\* the same day at midnight and at 23h, encoded to one key
C15_Witness ==
    /\ fmtKeys = <<"2024-01-02", "2024-01-02">>
    /\ fmtDates[1].h = 0
    /\ fmtDates[2].h = 23

\* C16: at most one reset interpolation is scheduled at any time, also when a second
\* reset is requested while the first is still running.
C16_OneInterpolation ==
    Len(animations) <= 1

\* C17: a rendered calendar marks exactly one cell selected, the cell of the current
\* date, which lies in the displayed month.
C17_OneSelectedCell ==
    calendarBody # <<>> =>
        /\ currentDate.y = monthYear[2]
        /\ currentDate.m = monthYear[3]
        /\ CellsWith(calendarBody, "selected") =
               {GetDay(monthYear[2], monthYear[3], 1) + currentDate.d}

\* after a save, a language toggle and a navigation to December 2023, the 1st is selected
C17_Witness ==
    /\ saved
    /\ monthYear = <<"en", 2023, 11>>
    /\ currentDate = [y |-> 2023, m |-> 11, d |-> 1]
    /\ CellsWith(calendarBody, "selected") = {GetDay(2023, 11, 1) + 1}

\* the materials saved as originals at model load
Originals(orig) == {orig[k] : k \in Meshes}

\* C18: with the model loaded, no original material ever changes colour; every part
\* carries either its original or a material that is no original and that no other part
\* carries; and a part painted with level 0 carries its original, with any other level
\* a material of its own.
C18_CopyOnWrite ==
    [][modelState' = "loaded" =>
          /\ \A m \in Meshes : materialColor'[originalMaterial'[m]] = BaseColor
          /\ \A m \in Meshes :
                \/ meshMaterial'[m] = originalMaterial'[m]
                \/ /\ meshMaterial'[m] \notin Originals(originalMaterial')
                   /\ \A k \in Meshes \ {m} : meshMaterial'[k] # meshMaterial'[m]
          /\ \A level \in LevelInputs :
                (setPainLevel(level) /\ selectedMuscle # NoMuscle) =>
                    (level = 0 <=> meshMaterial'[selectedMuscle] = originalMaterial'[selectedMuscle])
          /\ (modelLoaded \/ \E day \in ClickDays : dayClick(day)) =>
                \A m \in Meshes :
                    (StoredLevel(painData', formatDate(currentDate'), NodeName(m)) = 0
                        <=> meshMaterial'[m] = originalMaterial'[m])]_vars

\* biceps painted with level 2 in a material of its own, while triceps still carries the
\* original the two parts share
C18_Witness ==
    /\ modelState = "loaded"
    /\ originalMaterial["biceps"] = originalMaterial["triceps"]
    /\ meshMaterial["triceps"] = originalMaterial["triceps"]
    /\ meshMaterial["biceps"] # originalMaterial["biceps"]
    /\ materialColor[meshMaterial["biceps"]] = "F5B041"
    /\ materialColor[originalMaterial["biceps"]] = BaseColor

\* C19: prev/next leaves the current date unchanged.
C19_NavigationKeepsDate ==
    [][\A delta \in {-1, 1} : changeMonth(delta) => currentDate' = currentDate]_vars

\* C19 (amended): prev/next moves the current date into the month it displays, and a
\* severity set afterwards is recorded under that moved date.
C19_NavigationMovesDate ==
    [][/\ \A delta \in {-1, 1} :
             changeMonth(delta) =>
                 /\ currentDate' # currentDate
                 /\ currentDate' = NewDate(currentDate.y, currentDate.m + delta, currentDate.d)
                 /\ monthYear'[2] = currentDate'.y
                 /\ monthYear'[3] = currentDate'.m
       /\ \A level \in {1, 2, 3} :
             (setPainLevel(level) /\ selectedMuscle # NoMuscle) =>
                 /\ currentDate' = currentDate
                 /\ StoredLevel(painData', formatDate(currentDate), SelectedName) = level]_vars

\* the page was loaded on 2024-01-31 with nothing stored, prev was pressed, and the
\* severity set for triceps went under 2023-12-31
C19_Witness ==
    /\ saved
    /\ currentDate = [y |-> 2023, m |-> 11, d |-> 31]
    /\ StoredLevel(painData, "2023-12-31", "triceps") = 1
    /\ ~HasKey(painData, "2024-01-31")

\* C20: the controls are disabled while any reset interpolation is scheduled; once none
\* remains they are enabled and the camera is at the target of the latest reset.
C20_ControlsOffWhileAnimating ==
    /\ animations # <<>> => ~controlsEnabled
    /\ (animations = <<>> /\ resets > 0) => (controlsEnabled /\ cameraZ = lastTarget)

====
